---- MODULE Spec2Model ----
(***************************************************************************)
(* A model of src/shape.rs: the Shape type (an ordered sequence of usize   *)
(* dimension sizes), its rank-normalising mutators, its row queries, its   *)
(* row-major index arithmetic and its cross-type equality.                 *)
(*                                                                         *)
(* A Shape is the sequence `dims`; axis i of the code (0-based) is         *)
(* dims[i+1] here.  The operators that take an index keep the code's       *)
(* 0-based index.  usize arithmetic is modelled on the naturals: with the  *)
(* bounds below no product exceeds (MaxDim+1)^(MaxRank+1), far below 2^64. *)
(***************************************************************************)
EXTENDS Integers, Sequences, FiniteSets

VARIABLES dims, pre, op, arg, ret, prev, elems0

vars == <<dims, pre, op, arg, ret, prev, elems0>>

(***************************************************************************)
(* Bounds of the model.                                                    *)
(***************************************************************************)
\* rank and extent of the shapes the mutator specification starts from
MaxRank == 3
MaxDim == 5
\* rank and extent of the shapes and coordinate vectors of the index arithmetic
IdxRank == 3
IdxDim == 2
\* rank and extent of the operands of the equality comparisons
EqRank == 2
EqDim == 3

SeqsUpTo(n, d) == UNION {[1..k -> 0..d] : k \in 0..n}

Shapes == SeqsUpTo(MaxRank, MaxDim)
IdxShapes == SeqsUpTo(IdxRank, IdxDim)
EqShapes == SeqsUpTo(EqRank, EqDim)

(***************************************************************************)
(* Option / Result values.                                                 *)
(***************************************************************************)
None == [tag |-> "None"]
Some(v) == [tag |-> "Some", val |-> v]
Ok == [tag |-> "Ok"]
Err(m) == [tag |-> "Err", msg |-> m]
ShapeVal(s) == [tag |-> "Shape", val |-> s]

Min(a, b) == IF a <= b THEN a ELSE b

(***************************************************************************)
(* The container operations the other methods are built from.              *)
(***************************************************************************)
\* self.dims.push(dim)
push(s, dim) == Append(s, dim)

\* self.dims.insert(index, dim)
insert(s, index, dim) ==
  SubSeq(s, 1, index) \o <<dim>> \o SubSeq(s, index + 1, Len(s))

\* self.dims.remove(index): the shape left, and the dimension removed
remove(s, index) ==
  [dims |-> SubSeq(s, 1, index) \o SubSeq(s, index + 2, Len(s)),
   ret |-> s[index + 1]]

\* slice::contains
contains(s, x) == \E i \in 1..Len(s) : s[i] = x

\* slice::is_empty
is_empty(s) == Len(s) = 0

\* Iterator::product over a dimension sequence, front to back
RECURSIVE product(_)
product(s) == IF s = <<>> THEN 1 ELSE s[1] * product(Tail(s))

\* Iterator::skip(n)
skip(s, n) == SubSeq(s, n + 1, Len(s))

\* From<usize> for Shape: the rank-1 shape [dim]
from_usize(dim) == <<dim>>

(***************************************************************************)
(* Row and element-count queries.                                          *)
(***************************************************************************)
row_count(s) == IF Len(s) >= 1 THEN s[1] ELSE 1

\* row_len with the first dimension not skipped
row_len_all(s) == product(skip(s, 0))

row_len(s) == product(skip(s, 1))

elements(s) == product(s)

make_row(s) == IF ~is_empty(s) THEN remove(s, 0).dims ELSE s

row(s) == make_row(s)

\* the promotion of a scalar, and the axis the returned handle points at
row_count_mut(s) ==
  LET t == IF is_empty(s) THEN push(s, 1) ELSE s
  IN  [dims |-> t, ret |-> [tag |-> "RefMut", axis |-> 0, val |-> t[1]]]

(***************************************************************************)
(* Rank normalisation.                                                     *)
(***************************************************************************)
\* deshape that leaves every shape of rank <= 1 alone
deshape_rank_gt1(s) == IF Len(s) > 1 THEN from_usize(elements(s)) ELSE s

deshape(s) == IF Len(s) # 1 THEN from_usize(elements(s)) ELSE s

fix_depth(s, depth) ==
  LET d == Min(depth, Len(s))
  IN  [dims |-> insert(s, d, 1), ret |-> d]

\* fix that adds the unit dimension at the back
fix_back(s) == fix_depth(s, Len(s)).dims

fix(s) == fix_depth(s, 0).dims

\* unfix_inner returning the merged dimension instead of the removed one
unfix_inner_returns_merged(s) ==
  IF Len(s) >= 1 /\ s[1] = 1
  THEN LET r == remove(s, 0) IN [dims |-> r.dims, ret |-> Some(r.ret)]
  ELSE IF Len(s) >= 2
  THEN LET new_first_dim == s[1] * s[2]
           t == [s EXCEPT ![2] = new_first_dim]
           r == remove(t, 0)
       IN  [dims |-> r.dims, ret |-> Some(new_first_dim)]
  ELSE [dims |-> s, ret |-> None]

\* unfix_inner removing axis 0 without multiplying it into axis 1
unfix_inner_no_merge(s) ==
  IF Len(s) >= 1 /\ s[1] = 1
  THEN LET r == remove(s, 0) IN [dims |-> r.dims, ret |-> Some(r.ret)]
  ELSE IF Len(s) >= 2
  THEN LET r == remove(s, 0) IN [dims |-> r.dims, ret |-> Some(r.ret)]
  ELSE [dims |-> s, ret |-> None]

unfix_inner(s) ==
  IF Len(s) >= 1 /\ s[1] = 1
  THEN LET r == remove(s, 0) IN [dims |-> r.dims, ret |-> Some(r.ret)]
  ELSE IF Len(s) >= 2
  THEN LET new_first_dim == s[1] * s[2]
           t == [s EXCEPT ![2] = new_first_dim]
           r == remove(t, 0)
       IN  [dims |-> r.dims, ret |-> Some(r.ret)]
  ELSE [dims |-> s, ret |-> None]

\* the Err arms of unfix: the message, and the value formatted into it
WrongUnitLength(d) == [msg |-> "Cannot unfix array with length", d |-> d]
ContainsZeroDimension == [msg |-> "Cannot unfix empty array"]
IsScalar == [msg |-> "Cannot unfix scalar"]
Other(s) == [msg |-> "Cannot unfix array with shape", shape |-> s]

\* unfix testing for a zero dimension before the returned length
unfix_zero_first(s) ==
  LET r == unfix_inner(s)
  IN  [dims |-> r.dims,
       ret |-> IF r.ret.tag = "Some" /\ r.ret.val = 1 THEN Ok
               ELSE IF contains(r.dims, 0) THEN Err(ContainsZeroDimension)
               ELSE IF r.ret.tag = "Some" THEN Err(WrongUnitLength(r.ret.val))
               ELSE IF is_empty(r.dims) THEN Err(IsScalar)
               ELSE Err(Other(r.dims))]

\* unfix whose last arm reports the length of the array
unfix_length_last(s) ==
  LET r == unfix_inner(s)
  IN  [dims |-> r.dims,
       ret |-> IF r.ret.tag = "Some" /\ r.ret.val = 1 THEN Ok
               ELSE IF r.ret.tag = "Some" THEN Err(WrongUnitLength(r.ret.val))
               ELSE IF contains(r.dims, 0) THEN Err(ContainsZeroDimension)
               ELSE IF is_empty(r.dims) THEN Err(IsScalar)
               ELSE Err(WrongUnitLength(row_count(r.dims)))]

unfix(s) ==
  LET r == unfix_inner(s)
  IN  [dims |-> r.dims,
       ret |-> IF r.ret.tag = "Some" /\ r.ret.val = 1 THEN Ok
               ELSE IF r.ret.tag = "Some" THEN Err(WrongUnitLength(r.ret.val))
               ELSE IF contains(r.dims, 0) THEN Err(ContainsZeroDimension)
               ELSE IF is_empty(r.dims) THEN Err(IsScalar)
               ELSE Err(Other(r.dims))]

undo_fix(s) == unfix_inner(s).dims

(***************************************************************************)
(* The mutator specification: a Shape under fix, fix_depth, unfix,         *)
(* undo_fix, deshape and row_count_mut, and the row queries.               *)
(*   pre    the shape before the last operation                            *)
(*   op     the last operation                                             *)
(*   arg    its argument                                                   *)
(*   ret    what it returned                                               *)
(*   prev   the operation before it and the shape that one started from    *)
(*   elems0 elements() of the initial shape                                *)
(***************************************************************************)
NoPrev == [op |-> "init", pre |-> <<>>]

Init ==
  /\ dims \in Shapes
  /\ pre = dims
  /\ op = "init"
  /\ arg = None
  /\ ret = None
  /\ prev = NoPrev
  /\ elems0 = elements(dims)

\* the record of a call: name, argument, shape after, value returned
Call(name, a, s, r) ==
  /\ op' = name
  /\ arg' = a
  /\ pre' = dims
  /\ dims' = s
  /\ ret' = r
  /\ prev' = IF op = "fix" \/ op = "deshape" THEN [op |-> op, pre |-> pre] ELSE NoPrev
  /\ UNCHANGED elems0

\* the rank the model lets fix and fix_depth grow a shape to
CanGrow == Len(dims) <= MaxRank

Fix ==
  /\ CanGrow
  /\ Call("fix", None, fix(dims), None)

FixDepth ==
  /\ CanGrow
  /\ \E depth \in 0..(MaxRank + 2) :
       LET r == fix_depth(dims, depth)
       IN  Call("fix_depth", Some(depth), r.dims, Some(r.ret))

Unfix ==
  LET r == unfix(dims) IN Call("unfix", None, r.dims, r.ret)

UndoFix == Call("undo_fix", None, undo_fix(dims), None)

Deshape == Call("deshape", None, deshape(dims), None)

RowCountMut ==
  LET r == row_count_mut(dims) IN Call("row_count_mut", None, r.dims, r.ret)

RowCount == Call("row_count", None, dims, Some(row_count(dims)))

RowLen == Call("row_len", None, dims, Some(row_len(dims)))

Row == Call("row", None, dims, ShapeVal(row(dims)))

Elements == Call("elements", None, dims, Some(elements(dims)))

Next ==
  \/ Fix
  \/ FixDepth
  \/ Unfix
  \/ UndoFix
  \/ Deshape
  \/ RowCountMut
  \/ RowCount
  \/ RowLen
  \/ Row
  \/ Elements

Spec == Init /\ [][Next]_vars

(***************************************************************************)
(* Row-major index arithmetic.                                             *)
(***************************************************************************)
\* Vec::clear
clear(index) == <<>>

\* Vec::reverse
RECURSIVE reverse(_)
reverse(v) == IF v = <<>> THEN <<>> ELSE Append(reverse(Tail(v)), v[1])

\* the loop of flat_to_dims with k axes left to visit, last axis first:
\* flat % dim and flat / dim panic when dim is 0
RECURSIVE flat_to_dims_loop(_, _, _, _)
flat_to_dims_loop(s, k, flat, index) ==
  IF k = 0 THEN [tag |-> "Done", index |-> index]
  ELSE IF s[k] = 0 THEN [tag |-> "Panic", index |-> index]
  ELSE flat_to_dims_loop(s, k - 1, flat \div s[k], Append(index, flat % s[k]))

\* flat_to_dims without the final reverse
flat_to_dims_no_reverse(s, flat, index) ==
  flat_to_dims_loop(s, Len(s), flat, clear(index))

\* the caller's buffer after the call, or the panic of a division by zero
flat_to_dims(s, flat, index) ==
  LET r == flat_to_dims_loop(s, Len(s), flat, clear(index))
  IN  IF r.tag = "Panic" THEN r ELSE [tag |-> "Done", index |-> reverse(r.index)]

\* the loop of dims_to_flat with the bound test i > dim
RECURSIVE dims_to_flat_loop_gt(_, _, _, _, _)
dims_to_flat_loop_gt(s, index, i, n, flat) ==
  IF i > n THEN Some(flat)
  ELSE IF index[i] > s[i] THEN None
  ELSE dims_to_flat_loop_gt(s, index, i + 1, n, flat * s[i] + index[i])

\* the loop of dims_to_flat over the zipped pairs i..n
RECURSIVE dims_to_flat_loop(_, _, _, _, _)
dims_to_flat_loop(s, index, i, n, flat) ==
  IF i > n THEN Some(flat)
  ELSE IF index[i] >= s[i] THEN None
  ELSE dims_to_flat_loop(s, index, i + 1, n, flat * s[i] + index[i])

\* zip stops at the shorter of dims and index
dims_to_flat(s, index) ==
  dims_to_flat_loop(s, index, 1, Min(Len(s), Len(index)), 0)

(***************************************************************************)
(* The index specification: a fixed Shape, and calls of dims_to_flat and   *)
(* flat_to_dims on it with every coordinate vector and offset in bounds.   *)
(***************************************************************************)
\* the arguments of one call: a coordinate vector for dims_to_flat, or an
\* offset (a valid one, or the first invalid one) and the caller's buffer
\* (empty, or holding an old index) for flat_to_dims
IdxArgs(s) ==
  {Some(index) : index \in IdxShapes}
    \cup {[tag |-> "Flat", flat |-> flat, index |-> index] :
            flat \in 0..elements(s), index \in {<<>>, <<0, 0>>}}

InitIdx ==
  /\ dims \in IdxShapes
  /\ pre = dims
  /\ op = "init"
  /\ arg \in IdxArgs(dims)
  /\ ret = None
  /\ prev = NoPrev
  /\ elems0 = elements(dims)

DimsToFlat ==
  /\ op = "init"
  /\ arg.tag = "Some"
  /\ Call("dims_to_flat", arg, dims, dims_to_flat(dims, arg.val))

FlatToDims ==
  /\ op = "init"
  /\ arg.tag = "Flat"
  /\ Call("flat_to_dims", arg, dims, flat_to_dims(dims, arg.flat, arg.index))

NextIdx ==
  \/ DimsToFlat
  \/ FlatToDims

SpecIdx == InitIdx /\ [][NextIdx]_vars

(***************************************************************************)
(* Cross-type equality.  The operand types are Shape, usize, [usize; N],   *)
(* [usize] and &[usize]; a value of a sequence type is its sequence of     *)
(* dims.  Each eq_L_R is the impl PartialEq<R> for L of the source.        *)
(***************************************************************************)
\* the comparison of two dimension sequences every impl ends in
slice_eq(a, b) == Len(a) = Len(b) /\ \A i \in 1..Len(a) : a[i] = b[i]

\* <[usize; N]>::as_slice
as_slice(a) == a

eq_Shape_Shape(self, other) == slice_eq(self, other)

eq_Shape_slice(self, other) == slice_eq(self, other)

eq_refShape_slice(self, other) == eq_Shape_slice(self, other)

eq_Shape_refslice(self, other) == slice_eq(self, other)

eq_Shape_array(self, other) == eq_Shape_slice(self, as_slice(other))

eq_refShape_array(self, other) == eq_Shape_refslice(self, as_slice(other))

\* Shape == usize comparing the element count
eq_Shape_usize_elements(self, other) == elements(self) = other

eq_Shape_usize(self, other) == eq_refShape_array(self, <<other>>)

eq_refShape_usize(self, other) == eq_refShape_array(self, <<other>>)

eq_refslice_Shape(self, other) == eq_Shape_refslice(other, self)

eq_slice_Shape(self, other) == eq_Shape_slice(other, self)

\* the expression l == r is rejected: no impl PartialEq<R> for L exists
NoImpl == [tag |-> "NoImpl"]

\* l == r for l of type lt and r of type rt, resolved over the impls of the source
eq(lt, rt, l, r) ==
  CASE lt = "Shape" /\ rt = "Shape" -> Some(eq_Shape_Shape(l, r))
    [] lt = "Shape" /\ rt = "usize" -> Some(eq_Shape_usize(l, r))
    [] lt = "Shape" /\ rt = "[usize; N]" -> Some(eq_Shape_array(l, r))
    [] lt = "Shape" /\ rt = "[usize]" -> Some(eq_Shape_slice(l, r))
    [] lt = "Shape" /\ rt = "&[usize]" -> Some(eq_Shape_refslice(l, r))
    [] lt = "&[usize]" /\ rt = "Shape" -> Some(eq_refslice_Shape(l, r))
    [] lt = "[usize]" /\ rt = "Shape" -> Some(eq_slice_Shape(l, r))
    [] OTHER -> NoImpl

(***************************************************************************)
(* The equality specification: a Shape compared with a value of each       *)
(* operand type, the Shape on the left or on the right of ==.              *)
(***************************************************************************)
Sides == {"left", "right"}

\* the other operand of one comparison, and the side of == the Shape is on
Operand(ty, v, side) == [tag |-> "Operand", ty |-> ty, val |-> v, shape_on |-> side]

\* the same for a bare integer
Scalar(n, side) == [tag |-> "Operand", ty |-> "usize", num |-> n, shape_on |-> side]

\* the value of an operand
ValueOf(a) == IF a.ty = "usize" THEN a.num ELSE a.val

EqArgs ==
  {Scalar(n, side) : n \in 0..EqDim, side \in Sides}
    \cup {Operand(ty, a, side) :
            ty \in {"[usize; N]", "[usize]", "&[usize]", "Shape"},
            a \in EqShapes, side \in Sides}

InitEq ==
  /\ dims \in EqShapes
  /\ pre = dims
  /\ op = "init"
  /\ arg \in EqArgs
  /\ ret = None
  /\ prev = NoPrev
  /\ elems0 = elements(dims)

\* self == other with the Shape on the side the operand names
Compare(a) ==
  IF a.shape_on = "left"
  THEN eq("Shape", a.ty, dims, ValueOf(a))
  ELSE eq(a.ty, "Shape", ValueOf(a), dims)

CompareUsize ==
  /\ op = "init"
  /\ arg.ty = "usize"
  /\ Call("eq", arg, dims, Compare(arg))

CompareArray ==
  /\ op = "init"
  /\ arg.ty = "[usize; N]"
  /\ Call("eq", arg, dims, Compare(arg))

CompareSlice ==
  /\ op = "init"
  /\ arg.ty = "[usize]"
  /\ Call("eq", arg, dims, Compare(arg))

CompareRefSlice ==
  /\ op = "init"
  /\ arg.ty = "&[usize]"
  /\ Call("eq", arg, dims, Compare(arg))

CompareShape ==
  /\ op = "init"
  /\ arg.ty = "Shape"
  /\ Call("eq", arg, dims, Compare(arg))

NextEq ==
  \/ CompareUsize
  \/ CompareArray
  \/ CompareSlice
  \/ CompareRefSlice
  \/ CompareShape

SpecEq == InitEq /\ [][NextEq]_vars

(***************************************************************************)
(* Helpers of the properties.                                              *)
(***************************************************************************)
\* the product of s[i], s[i+1], ..., s[Len(s)]
RECURSIVE ProdFrom(_, _)
ProdFrom(s, i) == IF i > Len(s) THEN 1 ELSE s[i] * ProdFrom(s, i + 1)

\* an unfix() of a shape of rank >= 2 whose first dim is not 1 has just returned
MergingUnfix == op = "unfix" /\ Len(pre) >= 2 /\ pre[1] # 1

\* the shape with axes 0 and 1 of pre merged
Merged(s) == <<s[1] * s[2]>> \o SubSeq(s, 3, Len(s))

(***************************************************************************)
(* C3 as stated: a merging unfix() leaves the merged shape and reports     *)
(* "cannot unfix array with length d" with d the merged dimension, the     *)
(* product of the old axes 0 and 1.                                        *)
(***************************************************************************)
C3_MergeReportsProduct ==
  MergingUnfix =>
    /\ dims = Merged(pre)
    /\ ret = Err(WrongUnitLength(pre[1] * pre[2]))

(***************************************************************************)
(* C3 amended: a merging unfix() leaves the merged shape (axis 0 removed,  *)
(* the new leading dim the product of the old axes 0 and 1, later dims     *)
(* unchanged) and reports "cannot unfix array with length d" with d the    *)
(* length of the removed axis, the OLD first dim.                          *)
(***************************************************************************)
C3_MergeReportsOldFirstDim ==
  MergingUnfix =>
    /\ dims = Merged(pre)
    /\ ret = Err(WrongUnitLength(pre[1]))

C3_Witness ==
  /\ MergingUnfix
  /\ Len(pre) = 3 /\ pre[1] >= 2 /\ pre[2] >= 2 /\ pre[3] >= 2
  /\ dims = <<pre[1] * pre[2], pre[3]>>
  /\ ret = Err(WrongUnitLength(pre[1]))

(***************************************************************************)
(* C4 as stated: unfix() on [0,3] reports "cannot unfix empty array", and  *)
(* unfix() on the scalar shape reports "cannot unfix scalar".              *)
(***************************************************************************)
C4_ZeroShapeReportsContainsZero ==
  /\ (op = "unfix" /\ pre = <<0, 3>>) => ret = Err(ContainsZeroDimension)
  /\ (op = "unfix" /\ pre = <<>>) => ret = Err(IsScalar)

(***************************************************************************)
(* C4 amended: unfix() on [0,3] merges the shape to [0] and reports        *)
(* "cannot unfix array with length 0"; unfix() on the scalar shape leaves  *)
(* it unchanged and reports "cannot unfix scalar".                         *)
(***************************************************************************)
C4_ZeroShapeReportsLengthZero ==
  /\ (op = "unfix" /\ pre = <<0, 3>>) =>
       (ret = Err(WrongUnitLength(0)) /\ dims = <<0>>)
  /\ (op = "unfix" /\ pre = <<>>) => (ret = Err(IsScalar) /\ dims = <<>>)

C4_Witness == op = "unfix" /\ pre = <<0, 3>> /\ dims = <<0>> /\ ret.tag = "Err"

(***************************************************************************)
(* C5 as stated: unfix() on [5] reports "cannot unfix array with length 5".*)
(***************************************************************************)
C5_RankOneReportsLength ==
  (op = "unfix" /\ pre = <<5>>) => ret = Err(WrongUnitLength(5))

(***************************************************************************)
(* C5 amended: unfix() on [5] leaves the shape unchanged and fails with    *)
(* the whole-shape report, "cannot unfix array with shape [5]".            *)
(***************************************************************************)
C5_RankOneReportsShape ==
  (op = "unfix" /\ pre = <<5>>) => (ret = Err(Other(<<5>>)) /\ dims = <<5>>)

C5_Witness == op = "unfix" /\ pre = <<5>> /\ dims = <<5>> /\ ret.tag = "Err"

(***************************************************************************)
(* C6: fix() prepends a dim 1 to any shape, and an unfix() right after it  *)
(* reports success and restores exactly the shape fix() started from.      *)
(***************************************************************************)
C6_FixThenUnfixIsIdentity ==
  /\ op = "fix" => dims = <<1>> \o pre
  /\ (op = "unfix" /\ prev.op = "fix") => (ret = Ok /\ dims = prev.pre)

C6_Witness ==
  /\ op = "unfix" /\ prev.op = "fix"
  /\ prev.pre = <<2, 3>> /\ pre = <<1, 2, 3>> /\ dims = <<2, 3>> /\ ret = Ok

(***************************************************************************)
(* C7: deshape() replaces a shape whose rank is not 1 by [elements()] (the *)
(* scalar shape becomes [1], a shape with a zero dim becomes [0]) and      *)
(* leaves a rank-1 shape unchanged; the rank after it is 1, and a second   *)
(* deshape() changes nothing.                                              *)
(***************************************************************************)
C7_Deshape ==
  op = "deshape" =>
    /\ dims = IF Len(pre) # 1 THEN <<ProdFrom(pre, 1)>> ELSE pre
    /\ Len(dims) = 1
    /\ pre = <<>> => dims = <<1>>
    /\ (\E i \in 1..Len(pre) : pre[i] = 0) => dims = <<0>>
    /\ prev.op = "deshape" => dims = pre

C7_Witness ==
  /\ op = "deshape" /\ prev.op = "deshape"
  /\ prev.pre = <<2, 3>> /\ pre = <<6>> /\ dims = <<6>>

(***************************************************************************)
(* C8: row_count() is the first dim (1 for rank 0), row_len() the product  *)
(* of all dims but the first, row() the shape without its leading axis     *)
(* (the scalar stays scalar); row_count() * row_len() = elements() and     *)
(* row().elements() = row_len().                                           *)
(***************************************************************************)
C8_RowQueries ==
  /\ op = "row_count" => ret = Some(IF Len(dims) = 0 THEN 1 ELSE dims[1])
  /\ op = "row_len" => ret = Some(ProdFrom(dims, 2))
  /\ op = "row" =>
       /\ ret = ShapeVal(IF Len(dims) = 0 THEN <<>> ELSE Tail(dims))
       /\ elements(ret.val) = row_len(dims)
  /\ op = "elements" => ret = Some(ProdFrom(dims, 1))
  /\ row_count(dims) * row_len(dims) = elements(dims)

C8_Witness == op = "row" /\ dims = <<2, 3, 4>> /\ ret = ShapeVal(<<3, 4>>)

(***************************************************************************)
(* C10: elements() keeps its initial value under every sequence of fix,    *)
(* fix_depth, unfix (successful or not), undo_fix, deshape and the         *)
(* promotion of row_count_mut; fix_depth(d) raises the rank by exactly 1   *)
(* and returns min(d, rank).                                               *)
(***************************************************************************)
C10_ElementsInvariant ==
  /\ ProdFrom(dims, 1) = elems0
  /\ op = "fix_depth" =>
       /\ Len(dims) = Len(pre) + 1
       /\ ret = Some(IF arg.val <= Len(pre) THEN arg.val ELSE Len(pre))

C10_Witness ==
  /\ MergingUnfix /\ ret.tag = "Err"
  /\ pre[1] >= 2 /\ pre[2] >= 2 /\ Len(dims) < Len(pre)
  /\ elems0 >= 4

(***************************************************************************)
(* Helpers of the index properties.                                        *)
(***************************************************************************)
AllPositive(s) == \A i \in 1..Len(s) : s[i] > 0

\* c is a full coordinate vector of s, every component within its axis
ValidCoords(s, c) == Len(c) = Len(s) /\ \A i \in 1..Len(s) : c[i] < s[i]

\* the value of flat = flat * d[i] + c[i] over the axes 1..n, from 0
RECURSIVE Recurrence(_, _, _)
Recurrence(d, c, n) == IF n = 0 THEN 0 ELSE Recurrence(d, c, n - 1) * d[n] + c[n]

(***************************************************************************)
(* C1: on a shape whose dims are all > 0, flat_to_dims of the offset that  *)
(* dims_to_flat gives for a valid coordinate vector c is c again, and      *)
(* dims_to_flat of the coordinates that flat_to_dims gives for an offset   *)
(* f < elements() is f again.                                              *)
(***************************************************************************)
C1_RoundTrip ==
  /\ (op = "dims_to_flat" /\ AllPositive(dims) /\ ValidCoords(dims, arg.val)) =>
       /\ ret.tag = "Some"
       /\ flat_to_dims(dims, ret.val, <<>>) = [tag |-> "Done", index |-> arg.val]
  /\ (op = "flat_to_dims" /\ AllPositive(dims) /\ arg.flat < ProdFrom(dims, 1)) =>
       /\ ret.tag = "Done"
       /\ ValidCoords(dims, ret.index)
       /\ dims_to_flat(dims, ret.index) = Some(arg.flat)

C1_Witness ==
  /\ op = "dims_to_flat"
  /\ dims = <<2, 1, 2>> /\ arg.val = <<1, 0, 1>> /\ ret = Some(3)

(***************************************************************************)
(* C2: dims_to_flat pairs coordinates with dims in axis order; it returns  *)
(* no value exactly when a paired coordinate is >= its dim, and otherwise  *)
(* the value of flat = flat * dim_i + coord_i over the paired axes only:   *)
(* axes beyond the end of coords are neither checked nor counted.          *)
(***************************************************************************)
C2_DimsToFlat ==
  op = "dims_to_flat" =>
    LET c == arg.val
        n == IF Len(c) <= Len(dims) THEN Len(c) ELSE Len(dims)
        bad == \E i \in 1..n : c[i] >= dims[i]
    IN  /\ ret = None <=> bad
        /\ ~bad => ret = Some(Recurrence(dims, c, n))

C2_Witness ==
  /\ op = "dims_to_flat"
  /\ dims = <<2, 2, 0>> /\ arg.val = <<1, 1>> /\ ret = Some(3)

(***************************************************************************)
(* Helpers of the equality property.                                       *)
(***************************************************************************)
\* the dimension sequence an operand stands for: the bare integer n is [n]
DimsOf(a) == IF a.ty = "usize" THEN <<a.num>> ELSE a.val

====
